---- MODULE Spec2Model ----
(***************************************************************************)
(* SpinlockMutex<N, T>: a mutex whose exclusion is the rp2040 hardware     *)
(* spinlock number N (src/src/lib.rs).  The model has the hardware lock    *)
(* registers, the mutex instances with their protected values, the live    *)
(* guards and raw Spinlock<N> claims of every execution context, and each  *)
(* context's position inside a blocking lock().                            *)
(***************************************************************************)
EXTENDS Integers, FiniteSets, Sequences, TLC

\* Largest value the free-running contexts write through a guard.
MaxVal == 1

\* Number of `*MUTEX.lock() += 1` iterations of each core in the example.
Iterations == 10

\* The value the example asserts after the loops.
Expected == 20

\* The loop counters of the never-ending loops are kept modulo this.
PollWrap == 4

\* The execution contexts: the two cores of the rp2040.
Ctx == {"core0", "core1"}

\* The lock numbers modelled, out of the 32 of the hardware: 7, the number
\* of the example, and 31, the one rp2040_hal's critical-section uses.
LockNums == {7, 31}

\* The mutex instances: MUTEX and SECOND are both SpinlockMutex<7, i32>,
\* THIRD is a SpinlockMutex<31, i32>.
Cells == {"MUTEX", "SECOND", "THIRD"}

\* The const parameter N of a mutex instance.
LockOf(m) == IF m = "THIRD" THEN 31 ELSE 7

\* The value each instance is constructed with, new(InitialValue(m)).
InitialValue(m) == IF m = "SECOND" THEN MaxVal ELSE 0

NoCell == "NoCell"

\* The content of a mutex instance that has not been constructed yet.
Unmade == -1

\* What a context has in hand from its last call: nothing, the Option of
\* try_lock(), or the value behind the reference of a deref. The guard in
\* a Some and the reference borrowed from a guard end with the guard.
NoCall == [tag |-> "NoCall", val |-> 0]

RetNone == [tag |-> "None", val |-> 0]

RetSome == [tag |-> "Some", val |-> 0]

RetRef(v) == [tag |-> "Ref", val |-> v]

RetRefMut(v) == [tag |-> "RefMut", val |-> v]

Val == 0..MaxVal

VARIABLES
    spinlock,     \* spinlock[n]: hardware lock n is claimed
    guards,       \* guards[c][m]: live SpinlockMutexGuards of context c on mutex m
    raw,          \* raw[c][n]: live Spinlock<n> objects context c claimed directly
    data,         \* data[m]: the value in the UnsafeCell of mutex m
    waiting,      \* waiting[c]: the mutex whose lock() context c is spinning in
    ret,          \* ret[c]: what context c has in hand from its last try_lock() or deref
    lastWritten,  \* lastWritten[m]: the last value stored in m through a guard, or new()'s
    pc,           \* pc[c]: the position of context c in the example program
    iter,         \* iter[c]: loop iterations context c has completed
    lockReturns   \* number of lock() calls of the example's loops that returned

core == <<spinlock, guards, raw, data, waiting, ret, lastWritten>>

prog == <<pc, iter, lockReturns>>

vars == <<spinlock, guards, raw, data, waiting, ret, lastWritten, pc, iter, lockReturns>>

----------------------------------------------------------------------------
\* The hardware lock capability used by the mutex.

\* A lock register whose read always reports a successful claim.
TryClaimAlwaysOk(regs, n) ==
    [ok |-> TRUE, regs |-> [regs EXCEPT ![n] = TRUE]]

\* Spinlock::<N>::try_claim(): one read of lock register n. The read claims
\* the lock when it was free and reports whether it did.
TryClaim(regs, n) ==
    [ok |-> ~regs[n], regs |-> [regs EXCEPT ![n] = TRUE]]

\* Dropping a Spinlock<N>: one write to lock register n, which frees it.
Release(regs, n) ==
    [regs EXCEPT ![n] = FALSE]

\* SpinlockMutexGuard { _lock, data }: one more live guard of c on m.
NewGuard(g, c, m) ==
    [g EXCEPT ![c][m] = @ + 1]

\* A guard that can be dropped again: it stays live after its drop.
EndGuardKeepsLive(g, c, m) ==
    g

\* The guard's end of life: it is no longer live.
EndGuard(g, c, m) ==
    [g EXCEPT ![c][m] = @ - 1]

\* The lock numbers context c holds, through a guard or a raw claim.
HeldBy(c) ==
    {n \in LockNums : raw[c][n] > 0 \/ \E m \in Cells : LockOf(m) = n /\ guards[c][m] > 0}

\* The live guards on lock number n, as (context, mutex) pairs.
LiveGuards(n) ==
    {p \in Ctx \X Cells : LockOf(p[2]) = n /\ guards[p[1]][p[2]] > 0}

----------------------------------------------------------------------------
\* SpinlockMutex::new(v) for every instance: no lock is touched.
InitCore ==
    /\ spinlock = [n \in LockNums |-> FALSE]
    /\ guards = [c \in Ctx |-> [m \in Cells |-> 0]]
    /\ raw = [c \in Ctx |-> [n \in LockNums |-> 0]]
    /\ waiting = [c \in Ctx |-> NoCell]
    /\ ret = [c \in Ctx |-> NoCall]
    /\ lastWritten = data

\* A re-entrant lock(): a caller that already holds a guard on the lock
\* number is handed another one.
LockResultReentrant(c, m) ==
    LET r == TryClaim(spinlock, LockOf(m))
        mine == \E m2 \in Cells : LockOf(m2) = LockOf(m) /\ guards[c][m2] > 0
    IN  [spinlock |-> r.regs,
         guards   |-> IF r.ok \/ mine THEN NewGuard(guards, c, m) ELSE guards,
         waiting  |-> [waiting EXCEPT ![c] = IF r.ok \/ mine THEN NoCell ELSE m],
         returned |-> r.ok \/ mine]

\* lock() with the claim's outcome ignored: the guard is built at once.
LockResultNoWait(c, m) ==
    LET r == TryClaim(spinlock, LockOf(m))
    IN  [spinlock |-> r.regs,
         guards   |-> NewGuard(guards, c, m),
         waiting  |-> [waiting EXCEPT ![c] = NoCell],
         returned |-> TRUE]

\* lock() that drops the Spinlock<N> it claimed instead of moving it into
\* the guard: the guard is live, the lock is free.
LockResultDropsClaim(c, m) ==
    LET r == TryClaim(spinlock, LockOf(m))
    IN  [spinlock |-> IF r.ok THEN Release(r.regs, LockOf(m)) ELSE r.regs,
         guards   |-> IF r.ok THEN NewGuard(guards, c, m) ELSE guards,
         waiting  |-> [waiting EXCEPT ![c] = IF r.ok THEN NoCell ELSE m],
         returned |-> r.ok]

\* What one poll of lock() by c on m does: Spinlock::<N>::claim() polls
\* try_claim until it succeeds, and only then is the guard built.
LockResult(c, m) ==
    LET r == TryClaim(spinlock, LockOf(m))
    IN  [spinlock |-> r.regs,
         guards   |-> IF r.ok THEN NewGuard(guards, c, m) ELSE guards,
         waiting  |-> [waiting EXCEPT ![c] = IF r.ok THEN NoCell ELSE m],
         returned |-> r.ok]

\* lock(): the call and every later poll of the spin loop.
LockEff(c, m) ==
    /\ waiting[c] \in {NoCell, m}
    /\ LET s == LockResult(c, m)
       IN  /\ spinlock' = s.spinlock
           /\ guards' = s.guards
           /\ waiting' = s.waiting
    /\ UNCHANGED <<raw, data, ret, lastWritten>>

\* try_lock() that wraps a guard whether or not the claim succeeded.
TryLockResultAlwaysSome(c, m) ==
    LET r == TryClaim(spinlock, LockOf(m))
    IN  [spinlock |-> r.regs,
         guards   |-> NewGuard(guards, c, m),
         waiting  |-> waiting,
         ret      |-> RetSome]

\* try_lock() written with the blocking claim: a failed poll leaves the
\* caller spinning.
TryLockResultSpins(c, m) ==
    LET r == TryClaim(spinlock, LockOf(m))
    IN  [spinlock |-> r.regs,
         guards   |-> IF r.ok THEN NewGuard(guards, c, m) ELSE guards,
         waiting  |-> IF r.ok THEN waiting ELSE [waiting EXCEPT ![c] = m],
         ret      |-> IF r.ok THEN RetSome ELSE ret[c]]

\* try_lock() that loses the claim it obtained and reports no guard.
TryLockResultLosesClaim(c, m) ==
    LET r == TryClaim(spinlock, LockOf(m))
    IN  [spinlock |-> r.regs,
         guards   |-> guards,
         waiting  |-> waiting,
         ret      |-> RetNone]

\* try_lock() that frees the lock when its claim failed.
TryLockResultReleasesOnFail(c, m) ==
    LET r == TryClaim(spinlock, LockOf(m))
    IN  [spinlock |-> IF r.ok THEN r.regs ELSE Release(r.regs, LockOf(m)),
         guards   |-> IF r.ok THEN NewGuard(guards, c, m) ELSE guards,
         waiting  |-> waiting,
         ret      |-> IF r.ok THEN RetSome ELSE RetNone]

\* try_lock() on a re-entrant lock: a context that holds a guard of number
\* N gets another one.
TryLockResultReentrant(c, m) ==
    LET r  == TryClaim(spinlock, LockOf(m))
        ok == r.ok \/ \E m2 \in Cells : LockOf(m2) = LockOf(m) /\ guards[c][m2] > 0
    IN  [spinlock |-> r.regs,
         guards   |-> IF ok THEN NewGuard(guards, c, m) ELSE guards,
         waiting  |-> waiting,
         ret      |-> IF ok THEN RetSome ELSE RetNone]

\* What try_lock() by c on m does: one try_claim, mapped to a guard.
TryLockResult(c, m) ==
    LET r == TryClaim(spinlock, LockOf(m))
    IN  [spinlock |-> r.regs,
         guards   |-> IF r.ok THEN NewGuard(guards, c, m) ELSE guards,
         waiting  |-> waiting,
         ret      |-> IF r.ok THEN RetSome ELSE RetNone]

TryLockEff(c, m) ==
    /\ waiting[c] = NoCell
    /\ LET s == TryLockResult(c, m)
       IN  /\ spinlock' = s.spinlock
           /\ guards' = s.guards
           /\ waiting' = s.waiting
           /\ ret' = [ret EXCEPT ![c] = s.ret]
    /\ UNCHANGED <<raw, data, lastWritten>>

\* A guard whose end of life leaves the hardware lock claimed.
DropResultNoRelease(c, m) ==
    [spinlock |-> spinlock,
     guards   |-> EndGuard(guards, c, m),
     data     |-> data]

\* A drop that frees every lock register, not the one of the guard.
DropResultReleasesAll(c, m) ==
    [spinlock |-> [n \in LockNums |-> FALSE],
     guards   |-> EndGuard(guards, c, m),
     data     |-> data]

\* Dropping a guard of c on m drops its _lock field, which releases lock N;
\* the Option or reference the context had from the guard is gone with it.
DropResult(c, m) ==
    [spinlock |-> Release(spinlock, LockOf(m)),
     guards   |-> EndGuard(guards, c, m),
     data     |-> data]

\* unlock(guard) written with core::mem::forget: the guard is gone, its
\* claim is never released.
UnlockResultForget(c, m) ==
    [spinlock |-> spinlock,
     guards   |-> EndGuard(guards, c, m),
     data     |-> data]

\* unlock(guard): core::mem::drop(guard).
UnlockResult(c, m) ==
    DropResult(c, m)

UnlockEff(c, m) ==
    /\ waiting[c] = NoCell
    /\ guards[c][m] > 0
    /\ LET s == UnlockResult(c, m)
       IN  /\ spinlock' = s.spinlock
           /\ guards' = s.guards
           /\ data' = s.data
    /\ ret' = [ret EXCEPT ![c] = NoCall]
    /\ UNCHANGED <<raw, waiting, lastWritten>>

\* The guard goes out of scope.
ScopeEndEff(c, m) ==
    /\ waiting[c] = NoCell
    /\ guards[c][m] > 0
    /\ LET s == DropResult(c, m)
       IN  /\ spinlock' = s.spinlock
           /\ guards' = s.guards
           /\ data' = s.data
    /\ ret' = [ret EXCEPT ![c] = NoCall]
    /\ UNCHANGED <<raw, waiting, lastWritten>>

\* deref(): a read of the protected value through a live guard.
DerefEff(c, m) ==
    /\ waiting[c] = NoCell
    /\ guards[c][m] > 0
    /\ ret' = [ret EXCEPT ![c] = RetRef(data[m])]
    /\ UNCHANGED <<spinlock, guards, raw, data, waiting, lastWritten>>

\* A store that goes to a copy of the value, not to the cell.
StoreToCopy(d, m, v) ==
    d

\* The store of v through the reference deref_mut() hands out.
Store(d, m, v) ==
    [d EXCEPT ![m] = v]

\* deref_mut(): a write of the protected value through a live guard.
DerefMutEff(c, m, v) ==
    /\ waiting[c] = NoCell
    /\ guards[c][m] > 0
    /\ data' = Store(data, m, v)
    /\ lastWritten' = [lastWritten EXCEPT ![m] = v]
    /\ ret' = [ret EXCEPT ![c] = RetRefMut(v)]
    /\ UNCHANGED <<spinlock, guards, raw, waiting>>

\* Other code of the application claims Spinlock<n> directly.
RawTryClaimEff(c, n) ==
    /\ waiting[c] = NoCell
    /\ LET r == TryClaim(spinlock, n)
       IN  /\ spinlock' = r.regs
           /\ raw' = IF r.ok THEN [raw EXCEPT ![c][n] = @ + 1] ELSE raw
    /\ UNCHANGED <<guards, data, waiting, ret, lastWritten>>

\* and drops the Spinlock<n> it claimed.
RawReleaseEff(c, n) ==
    /\ waiting[c] = NoCell
    /\ raw[c][n] > 0
    /\ spinlock' = Release(spinlock, n)
    /\ raw' = [raw EXCEPT ![c][n] = @ - 1]
    /\ UNCHANGED <<guards, data, waiting, ret, lastWritten>>

\* new() that brings the lock of its number to the unlocked state.
NewResultResetsLock(m, v) ==
    [spinlock |-> Release(spinlock, LockOf(m)),
     guards   |-> guards,
     raw      |-> raw,
     data     |-> [data EXCEPT ![m] = v]]

\* What new(v) does for instance m: Self { data: UnsafeCell::new(v) }, a
\* const fn that touches no lock register.
NewResult(m, v) ==
    [spinlock |-> spinlock,
     guards   |-> guards,
     raw      |-> raw,
     data     |-> [data EXCEPT ![m] = v]]

\* SpinlockMutex::new(v), run by context c for an instance not built yet.
NewEff(c, m, v) ==
    /\ waiting[c] = NoCell
    /\ data[m] = Unmade
    /\ LET s == NewResult(m, v)
       IN  /\ spinlock' = s.spinlock
           /\ guards' = s.guards
           /\ raw' = s.raw
           /\ data' = s.data
    /\ lastWritten' = [lastWritten EXCEPT ![m] = v]
    /\ UNCHANGED <<waiting, ret>>

----------------------------------------------------------------------------
\* Contexts that call the operations in any order.

Init ==
    /\ data = [m \in Cells |-> InitialValue(m)]
    /\ InitCore
    /\ pc = [c \in Ctx |-> "free"]
    /\ iter = [c \in Ctx |-> 0]
    /\ lockReturns = 0

Lock(c, m) == LockEff(c, m) /\ UNCHANGED prog

TryLock(c, m) == TryLockEff(c, m) /\ UNCHANGED prog

Unlock(c, m) == UnlockEff(c, m) /\ UNCHANGED prog

ScopeEnd(c, m) == ScopeEndEff(c, m) /\ UNCHANGED prog

Deref(c, m) == DerefEff(c, m) /\ UNCHANGED prog

DerefMut(c, m, v) == DerefMutEff(c, m, v) /\ UNCHANGED prog

RawTryClaim(c, n) == RawTryClaimEff(c, n) /\ UNCHANGED prog

RawRelease(c, n) == RawReleaseEff(c, n) /\ UNCHANGED prog

Next ==
    \E c \in Ctx :
        \/ \E m \in Cells : Lock(c, m)
        \/ \E m \in Cells : TryLock(c, m)
        \/ \E m \in Cells : Unlock(c, m)
        \/ \E m \in Cells : ScopeEnd(c, m)
        \/ \E m \in Cells : Deref(c, m)
        \/ \E m \in Cells, v \in Val : DerefMut(c, m, v)
        \/ \E n \in LockNums : RawTryClaim(c, n)
        \/ \E n \in LockNums : RawRelease(c, n)

Spec == Init /\ [][Next]_vars

----------------------------------------------------------------------------
\* The increment scenario: static MUTEX: SpinlockMutex<7, i32> = new(0), and
\* each core runs `for _ in 0..10 { *MUTEX.lock() += 1; }`.

InitScenario ==
    /\ data = [m \in Cells |-> 0]
    /\ InitCore
    /\ pc = [c \in Ctx |-> "lock"]
    /\ iter = [c \in Ctx |-> 0]
    /\ lockReturns = 0

\* MUTEX.lock(): polls until the claim succeeds, then the guard is returned.
IncLock(c) ==
    /\ pc[c] = "lock"
    /\ LockEff(c, "MUTEX")
    /\ IF LockResult(c, "MUTEX").returned
          THEN /\ pc' = [pc EXCEPT ![c] = "load"]
               /\ lockReturns' = lockReturns + 1
          ELSE UNCHANGED <<pc, lockReturns>>
    /\ UNCHANGED iter

\* `+= 1` reads the value through the guard ...
IncLoad(c) ==
    /\ pc[c] = "load"
    /\ DerefEff(c, "MUTEX")
    /\ pc' = [pc EXCEPT ![c] = "store"]
    /\ UNCHANGED <<iter, lockReturns>>

\* ... and writes it back, one larger.
IncStore(c) ==
    /\ pc[c] = "store"
    /\ DerefMutEff(c, "MUTEX", ret[c].val + 1)
    /\ pc' = [pc EXCEPT ![c] = "drop"]
    /\ UNCHANGED <<iter, lockReturns>>

\* The temporary guard is dropped at the end of the statement; the loop
\* goes on, or the context continues at `after`.
IncDrop(c, after) ==
    /\ pc[c] = "drop"
    /\ ScopeEndEff(c, "MUTEX")
    /\ iter' = [iter EXCEPT ![c] = @ + 1]
    /\ pc' = [pc EXCEPT ![c] = IF iter[c] + 1 = Iterations THEN after ELSE "lock"]
    /\ UNCHANGED lockReturns

NextScenario ==
    \E c \in Ctx :
        \/ IncLock(c)
        \/ IncLoad(c)
        \/ IncStore(c)
        \/ IncDrop(c, "done")

SpecScenario == InitScenario /\ [][NextScenario]_vars

----------------------------------------------------------------------------
\* The documented example: core 1 runs the loop in run_on_core1's closure,
\* core 0 runs its own loop and then `assert_eq!(*MUTEX.lock(), 20)`.

AfterLoop(c) == IF c = "core0" THEN "assert_lock" ELSE "done"

\* The lock() of the assertion.
AssertLock(c) ==
    /\ pc[c] = "assert_lock"
    /\ LockEff(c, "MUTEX")
    /\ pc' = [pc EXCEPT ![c] = IF LockResult(c, "MUTEX").returned
                                  THEN "assert_read" ELSE "assert_lock"]
    /\ UNCHANGED <<iter, lockReturns>>

\* The read of the value the assertion compares with 20.
AssertRead(c) ==
    /\ pc[c] = "assert_read"
    /\ DerefEff(c, "MUTEX")
    /\ pc' = [pc EXCEPT ![c] = "asserted"]
    /\ UNCHANGED <<iter, lockReturns>>

\* The guard of the assertion is dropped.
AssertDrop(c) ==
    /\ pc[c] = "asserted"
    /\ ScopeEndEff(c, "MUTEX")
    /\ pc' = [pc EXCEPT ![c] = "done"]
    /\ UNCHANGED <<iter, lockReturns>>

NextExample ==
    \E c \in Ctx :
        \/ IncLock(c)
        \/ IncLoad(c)
        \/ IncStore(c)
        \/ IncDrop(c, AfterLoop(c))
        \/ AssertLock(c)
        \/ AssertRead(c)
        \/ AssertDrop(c)

SpecExample == InitScenario /\ [][NextExample]_vars

\* The hardware grants lock N of m to context c, which is spinning in
\* lock(): the poll of c that finds the lock free.
Grant(c, m) ==
    /\ waiting[c] = m
    /\ ~spinlock[LockOf(m)]
    /\ Lock(c, m)

\* The operations that claim or release a lock; reads and writes through
\* a guard touch neither a lock nor a guard.
NextLocking ==
    \E c \in Ctx :
        \/ \E m \in Cells : Lock(c, m)
        \/ \E m \in Cells : TryLock(c, m)
        \/ \E m \in Cells : Unlock(c, m)
        \/ \E m \in Cells : ScopeEnd(c, m)
        \/ \E m \in Cells : Deref(c, m)
        \/ \E n \in LockNums : RawTryClaim(c, n)
        \/ \E n \in LockNums : RawRelease(c, n)

\* These operations, with a hardware that does not pass over a spinning
\* claimant for ever while the lock is free again and again.
SpecFair ==
    /\ Init
    /\ [][NextLocking]_vars
    /\ \A c \in Ctx, m \in Cells : SF_vars(Grant(c, m))

----------------------------------------------------------------------------
\* Sustained contention: core 0 runs `loop { *MUTEX.lock() = v; }` for ever,
\* core 1 is inside one MUTEX.lock(). A step is one poll of one core, one
\* further operation of core 0, or one clock cycle in which both cores poll
\* the lock register.

\* A tie that goes to core 1.
TieWinnerCore1 == "core1"

\* "If both cores try to claim the lock on the same clock cycle, core 0
\* will acquire the lock".
TieWinner == "core0"

\* Both cores poll lock register N of m in the same clock cycle.
BothPollResult(m) ==
    LET r == TryClaim(spinlock, LockOf(m))
    IN  [spinlock |-> r.regs,
         guards   |-> IF r.ok THEN NewGuard(guards, TieWinner, m) ELSE guards,
         waiting  |-> [c \in DOMAIN waiting |->
                          IF c \notin Ctx THEN waiting[c]
                          ELSE IF r.ok /\ c = TieWinner THEN NoCell ELSE m],
         returned |-> [c \in Ctx |-> r.ok /\ c = TieWinner]]

\* Core 0 polls alone.
StarveLock ==
    /\ pc["core0"] = "lock"
    /\ LockEff("core0", "MUTEX")
    /\ pc' = [pc EXCEPT !["core0"] = IF LockResult("core0", "MUTEX").returned
                                       THEN "load" ELSE "lock"]
    /\ UNCHANGED <<iter, lockReturns>>

StarveLoad ==
    /\ pc["core0"] = "load"
    /\ DerefEff("core0", "MUTEX")
    /\ pc' = [pc EXCEPT !["core0"] = "store"]
    /\ UNCHANGED <<iter, lockReturns>>

StarveStore(v) ==
    /\ pc["core0"] = "store"
    /\ DerefMutEff("core0", "MUTEX", v)
    /\ pc' = [pc EXCEPT !["core0"] = "drop"]
    /\ UNCHANGED <<iter, lockReturns>>

\* Core 0 releases and goes round its loop.
StarveDrop ==
    /\ pc["core0"] = "drop"
    /\ ScopeEndEff("core0", "MUTEX")
    /\ pc' = [pc EXCEPT !["core0"] = "lock"]
    /\ iter' = [iter EXCEPT !["core0"] = (@ + 1) % PollWrap]
    /\ UNCHANGED lockReturns

\* Core 1 polls alone, at any time.
Core1Poll ==
    /\ pc["core1"] = "lock"
    /\ LockEff("core1", "MUTEX")
    /\ pc' = [pc EXCEPT !["core1"] = IF LockResult("core1", "MUTEX").returned
                                       THEN "load" ELSE "lock"]
    /\ iter' = [iter EXCEPT !["core1"] = (@ + 1) % PollWrap]
    /\ UNCHANGED lockReturns

\* The timing of the starving executions: a poll of core 1 alone falls in
\* a cycle in which the lock is held.
StarvePoll ==
    /\ spinlock[LockOf("MUTEX")]
    /\ Core1Poll

\* Both cores poll in the same cycle.
StarveBothPoll ==
    /\ pc["core0"] = "lock"
    /\ pc["core1"] = "lock"
    /\ waiting["core0"] \in {NoCell, "MUTEX"}
    /\ waiting["core1"] \in {NoCell, "MUTEX"}
    /\ LET s == BothPollResult("MUTEX")
       IN  /\ spinlock' = s.spinlock
           /\ guards' = s.guards
           /\ waiting' = s.waiting
           /\ pc' = [c \in DOMAIN pc |->
                        IF c \in Ctx /\ s.returned[c] THEN "load" ELSE pc[c]]
    /\ iter' = [iter EXCEPT !["core1"] = (@ + 1) % PollWrap]
    /\ UNCHANGED <<raw, data, ret, lastWritten, lockReturns>>

Core0Step ==
    \/ StarveLock
    \/ StarveLoad
    \/ \E v \in Val : StarveStore(v)
    \/ StarveDrop
    \/ StarveBothPoll

Core1Step ==
    \/ StarvePoll
    \/ StarveBothPoll

NextStarve ==
    \/ StarveLock
    \/ StarveLoad
    \/ \E v \in Val : StarveStore(v)
    \/ StarveDrop
    \/ StarvePoll
    \/ StarveBothPoll

\* Every step of these executions is a step of the two cores with core 1
\* polling at any time.
NextContend ==
    \/ NextStarve
    \/ Core1Poll

\* Both cores keep taking steps.
SpecStarve ==
    /\ InitScenario
    /\ [][NextStarve]_vars
    /\ WF_vars(Core0Step)
    /\ WF_vars(Core1Step)

----------------------------------------------------------------------------
\* Interrupts "are not deactivated": an interrupt handler can preempt the
\* code of core 0 at any point, also while it holds a guard. The handler is
\* a context of its own on core 0; the preempted code does not run before
\* the handler has returned.

\* The interrupt handler of core 0.
Handler == "irq0"

AllCtx == Ctx \cup {Handler}

\* A core whose interrupted code takes turns with the handler.
RunsTimeSliced(c) ==
    TRUE

\* Context c has the processor: core 1 always, the code of core 0 unless
\* preempted, the handler while it has preempted core 0.
Runs(c) ==
    CASE c = "core1" -> TRUE
      [] c = "core0" -> pc["core0"] = "free"
      [] c = Handler -> pc["core0"] = "preempted"

InitIrq ==
    /\ data = [m \in Cells |-> InitialValue(m)]
    /\ spinlock = [n \in LockNums |-> FALSE]
    /\ guards = [c \in AllCtx |-> [m \in Cells |-> 0]]
    /\ raw = [c \in AllCtx |-> [n \in LockNums |-> 0]]
    /\ waiting = [c \in AllCtx |-> NoCell]
    /\ ret = [c \in AllCtx |-> NoCall]
    /\ lastWritten = data
    /\ pc = [c \in Ctx |-> "free"]
    /\ iter = [c \in Ctx |-> 0]
    /\ lockReturns = 0

\* The interrupt fires: the handler starts, the code of core 0 stops where
\* it is, with whatever it holds.
IrqEnter ==
    /\ pc["core0"] = "free"
    /\ pc' = [pc EXCEPT !["core0"] = "preempted"]
    /\ UNCHANGED <<core, iter, lockReturns>>

\* The handler returns, its guards dropped, and the code of core 0 resumes.
IrqReturn ==
    /\ pc["core0"] = "preempted"
    /\ waiting[Handler] = NoCell
    /\ \A m \in Cells : guards[Handler][m] = 0
    /\ pc' = [pc EXCEPT !["core0"] = "free"]
    /\ ret' = [ret EXCEPT ![Handler] = NoCall]
    /\ UNCHANGED <<spinlock, guards, raw, data, waiting, lastWritten, iter, lockReturns>>

NextIrq ==
    \/ IrqEnter
    \/ IrqReturn
    \/ \E c \in AllCtx, m \in Cells :
          \/ Runs(c) /\ Lock(c, m)
          \/ Runs(c) /\ TryLock(c, m)
          \/ Runs(c) /\ Unlock(c, m)
          \/ Runs(c) /\ ScopeEnd(c, m)

SpecIrq == InitIrq /\ [][NextIrq]_vars

----------------------------------------------------------------------------
\* Construction at run time: MUTEX and THIRD are statics, SECOND is built by
\* `let mutex: SpinlockMutex<7, i32> = SpinlockMutex::new(v)` while the
\* contexts already use the others.

\* Instance m has been constructed.
Made(m) == data[m] # Unmade

InitNew ==
    /\ data = [m \in Cells |-> IF m = "SECOND" THEN Unmade ELSE InitialValue(m)]
    /\ InitCore
    /\ pc = [c \in Ctx |-> "free"]
    /\ iter = [c \in Ctx |-> 0]
    /\ lockReturns = 0

New(c, m, v) == NewEff(c, m, v) /\ UNCHANGED prog

NextNew ==
    \E c \in Ctx :
        \/ \E m \in Cells, v \in Val : New(c, m, v)
        \/ \E m \in Cells : Made(m) /\ Lock(c, m)
        \/ \E m \in Cells : Made(m) /\ TryLock(c, m)
        \/ \E m \in Cells : Unlock(c, m)
        \/ \E m \in Cells : ScopeEnd(c, m)
        \/ \E m \in Cells : Deref(c, m)
        \/ \E m \in Cells, v \in Val : DerefMut(c, m, v)
        \/ \E n \in LockNums : RawTryClaim(c, n)
        \/ \E n \in LockNums : RawRelease(c, n)

SpecNew == InitNew /\ [][NextNew]_vars

----------------------------------------------------------------------------
\* Properties.

\* Context c holds a live guard of some mutex on lock number n.
HoldsGuardOn(c, n) ==
    \E m \in Cells : LockOf(m) = n /\ guards[c][m] > 0

\* C1. Mutual exclusion: in every reachable state, for every lock number N,
\* at most one guard obtained through lock() or try_lock() on a mutex of
\* number N is live, over all contexts and all mutexes of that number.
MutualExclusion ==
    \A n \in LockNums :
        /\ Cardinality(LiveGuards(n)) <= 1
        /\ \A p \in LiveGuards(n) : guards[p[1]][p[2]] = 1

\* One context holds the guard of MUTEX while the other spins in lock() on it.
MutualExclusionWitness ==
    \E c1, c2 \in Ctx :
        /\ c1 # c2
        /\ guards[c1]["MUTEX"] = 1
        /\ waiting[c2] = "MUTEX"

\* C2. No lost updates: once both contexts have finished their 10 iterations
\* of lock / read, increment, write / release, the protected value is 20 and
\* 20 lock() calls have returned.
NoLostUpdates ==
    (\A c \in Ctx : pc[c] = "done") =>
        /\ data["MUTEX"] = Expected
        /\ lockReturns = Cardinality(Ctx) * Iterations

\* Both contexts have finished, each after 10 iterations.
NoLostUpdatesWitness ==
    /\ \A c \in Ctx : pc[c] = "done" /\ iter[c] = Iterations
    /\ data["MUTEX"] = Expected

\* C3. The value core 0 reads at `assert_eq!(*MUTEX.lock(), 20)`, after its
\* own loop and without waiting for core 1, is 20.
ExampleAssertionReads20 ==
    pc["core0"] = "asserted" => ret["core0"] = RetRef(Expected)


\* Some context other than c holds a live guard on the lock number of m.
OtherHolds(c, m) ==
    \E c2 \in Ctx \ {c} : HoldsGuardOn(c2, LockOf(m))

\* C4. try_lock() never blocks: called while another context holds a live
\* guard for the same lock number, it completes in that one step, returns
\* None, builds no guard, and the caller is not left waiting; and no
\* try_lock() at all leaves its caller waiting.
TryLockNeverBlocks ==
    [][\A c \in Ctx, m \in Cells :
          TryLock(c, m) =>
              /\ waiting'[c] = NoCell
              /\ OtherHolds(c, m) =>
                    /\ ret'[c] = RetNone
                    /\ guards' = guards
                    /\ spinlock' = spinlock]_vars

\* A context whose try_lock() returned None is not waiting, while the other
\* context holds the guard of MUTEX.
TryLockNeverBlocksWitness ==
    \E c1, c2 \in Ctx :
        /\ c1 # c2
        /\ guards[c1]["MUTEX"] = 1
        /\ ret[c2] = RetNone
        /\ waiting[c2] = NoCell
        /\ HeldBy(c2) = {}

\* C5. try_lock() on a free lock returns Some(guard) and leaves the lock
\* held by the caller; after a holder releases, try_lock() by another
\* context succeeds; and of two contexts that call try_lock() on a free
\* lock, the first to reach the register gets the guard and the other None.
TryLockSucceedsWhenFree ==
    [][\A c \in Ctx, m \in Cells :
          /\ (~spinlock[LockOf(m)] /\ TryLock(c, m)) =>
                /\ ret'[c] = RetSome
                /\ spinlock'[LockOf(m)]
                /\ guards'[c][m] = guards[c][m] + 1
                /\ \A c2 \in Ctx \ {c}, m2 \in Cells :
                      LockOf(m2) = LockOf(m) => (TryLockResult(c2, m2).ret)' = RetNone
          /\ (Unlock(c, m) \/ ScopeEnd(c, m)) =>
                \A c2 \in Ctx \ {c} : (TryLockResult(c2, m).ret)' = RetSome]_vars

\* One context obtained the guard of MUTEX by try_lock() and the other,
\* trying too, got None.
TryLockSucceedsWhenFreeWitness ==
    \E c1, c2 \in Ctx :
        /\ c1 # c2
        /\ ret[c1] = RetSome
        /\ guards[c1]["MUTEX"] = 1
        /\ ret[c2] = RetNone
        /\ raw = [c \in Ctx |-> [n \in LockNums |-> 0]]


\* No context holds a Spinlock<n> it claimed directly.
NoRawClaim(n) ==
    \A c \in Ctx : raw[c][n] = 0

\* C6. Release-on-drop: the step in which a guard ends its life, by scope
\* end or by unlock(), frees lock N, so that in the resulting state lock()
\* and try_lock() by another context succeed; and lock N is never held with
\* neither a live guard nor a direct claim on it.
ReleaseOnDrop ==
    /\ [](\A n \in LockNums : (spinlock[n] /\ NoRawClaim(n)) => LiveGuards(n) # {})
    /\ [][\A c \in Ctx, m \in Cells :
             (Unlock(c, m) \/ ScopeEnd(c, m)) =>
                 /\ ~spinlock'[LockOf(m)]
                 /\ guards'[c][m] = 0
                 /\ \A c2 \in Ctx \ {c} :
                       /\ (LockResult(c2, m).returned)'
                       /\ (TryLockResult(c2, m).ret)' = RetSome]_vars

\* A context has just been handed the guard of MUTEX by try_lock() and has
\* not used it, the other context holds nothing, and the value of MUTEX is
\* one written through an earlier guard, which has ended.
ReleaseOnDropWitness ==
    \E c1, c2 \in Ctx :
        /\ c1 # c2
        /\ HeldBy(c1) = {}
        /\ guards[c2]["MUTEX"] = 1
        /\ ret[c2] = RetSome
        /\ data["MUTEX"] # InitialValue("MUTEX")

\* C7. Explicit unlock equivalence: from every state in which a context
\* holds a guard, unlock(guard) and the guard's scope end are the same step:
\* lock N free, protected value unchanged, guard no longer live, and the
\* next contender's claim succeeds at once.
UnlockEquivalence ==
    [][\A c \in Ctx, m \in Cells :
          /\ Unlock(c, m) <=> ScopeEnd(c, m)
          /\ Unlock(c, m) =>
                /\ ~spinlock'[LockOf(m)]
                /\ data' = data
                /\ guards'[c][m] = 0
                /\ (TryClaim(spinlock, LockOf(m)).ok)']_vars

\* The value of MUTEX was written through a guard, that guard has ended,
\* and every lock is free with no guard live.
UnlockEquivalenceWitness ==
    /\ data["MUTEX"] # InitialValue("MUTEX")
    /\ \A n \in LockNums : ~spinlock[n] /\ LiveGuards(n) = {}

\* C8. Data consistency: a read through a guard returns the last value
\* written through a guard of that mutex, or new()'s value when none was
\* written; and the protected value changes only in a write step of the
\* context that holds the one live guard on the mutex's lock number.
DataConsistency ==
    [][\A m \in Cells :
          /\ \A c \in Ctx : Deref(c, m) => ret'[c] = RetRef(lastWritten[m])
          /\ data'[m] # data[m] =>
                \E c \in Ctx :
                    /\ LiveGuards(LockOf(m)) = {<<c, m>>}
                    /\ guards[c][m] = 1
                    /\ \E v \in Val : DerefMut(c, m, v)]_vars

\* The holder of the guard of MUTEX has in hand a value it read through the
\* guard, and it is a written value, not the one MUTEX was constructed with.
DataConsistencyWitness ==
    \E c \in Ctx :
        /\ guards[c]["MUTEX"] = 1
        /\ ret[c] = RetRef(data["MUTEX"])
        /\ data["MUTEX"] # InitialValue("MUTEX")


\* Context c is inside lock() on a mutex whose lock number it holds a live
\* guard for.
SelfDeadlocked(c) ==
    /\ waiting[c] # NoCell
    /\ HoldsGuardOn(c, LockOf(waiting[c]))

\* C9. Re-entrant deadlock: lock() called by a context that holds a live
\* guard for the same lock number does not return: the call leaves the
\* context spinning, and from then on every step leaves it spinning on the
\* same mutex with its guard still live and nothing returned to it.
ReentrantDeadlock ==
    [][\A c \in Ctx :
          /\ \A m \in Cells :
                (HoldsGuardOn(c, LockOf(m)) /\ Lock(c, m)) =>
                    /\ waiting'[c] = m
                    /\ guards' = guards
          /\ SelfDeadlocked(c) =>
                /\ SelfDeadlocked(c)'
                /\ waiting'[c] = waiting[c]
                /\ guards'[c] = guards[c]
                /\ ret'[c] = ret[c]]_vars

\* A context spins in lock() on MUTEX while holding the guard of MUTEX.
ReentrantDeadlockWitness ==
    \E c \in Ctx :
        /\ waiting[c] = "MUTEX"
        /\ guards[c]["MUTEX"] = 1

\* Lock number N of mutex m is taken by a guard of another mutex of the
\* same number or by a direct claim of Spinlock<N>.
TakenElsewhere(m) ==
    \E c \in Ctx :
        \/ raw[c][LockOf(m)] > 0
        \/ \E m2 \in Cells \ {m} : LockOf(m2) = LockOf(m) /\ guards[c][m2] > 0

\* C10. Same-number contention: while a guard of another mutex of the same
\* lock number, or a direct claim of that number, is live, lock() on this
\* mutex does not return and try_lock() on it returns None; a write through
\* the guard of one mutex leaves the value of every other mutex unchanged.
SameNumberContention ==
    [][\A c \in Ctx, m \in Cells :
          /\ (TakenElsewhere(m) /\ Lock(c, m)) =>
                /\ waiting'[c] = m
                /\ guards' = guards
          /\ (TakenElsewhere(m) /\ TryLock(c, m)) =>
                /\ ret'[c] = RetNone
                /\ guards' = guards
          /\ (\E v \in Val : DerefMut(c, m, v)) =>
                \A m2 \in Cells \ {m} : data'[m2] = data[m2]]_vars

\* The guard of MUTEX is live, the other context spins in lock() on SECOND,
\* the second mutex of number 7, and the two values differ.
SameNumberContentionWitness ==
    \E c1, c2 \in Ctx :
        /\ c1 # c2
        /\ guards[c1]["MUTEX"] = 1
        /\ waiting[c2] = "SECOND"
        /\ data["MUTEX"] # data["SECOND"]

\* C11. new() creates the mutex in an unlocked state ready for use: in the
\* state right after new(v), before any lock() or try_lock() on that mutex,
\* try_lock() on it returns a guard and lock() on it returns at once.
NewIsUnlocked ==
    [][\A c \in Ctx, m \in Cells, v \in Val :
          New(c, m, v) =>
              /\ (TryLockResult(c, m).ret)' = RetSome
              /\ (LockResult(c, m).returned)']_vars

\* C12. Construction has no hardware interaction: new(v) can always be
\* run for an instance not built yet, stores v as the protected value, and
\* leaves every lock register, guard and direct claim as it was.
NewTouchesNoLock ==
    /\ [](\A c \in Ctx, m \in Cells, v \in Val :
            (waiting[c] = NoCell /\ ~Made(m)) => ENABLED New(c, m, v))
    /\ [][\A c \in Ctx, m \in Cells, v \in Val :
             New(c, m, v) =>
                 /\ data'[m] = v
                 /\ \A m2 \in Cells \ {m} : data'[m2] = data[m2]
                 /\ spinlock' = spinlock
                 /\ guards' = guards
                 /\ raw' = raw
                 /\ waiting' = waiting]_vars

\* SECOND has been constructed, and not used, while lock 7 was held by the
\* guard of MUTEX in one context and lock 31 by a direct claim in the other.
NewTouchesNoLockWitness ==
    \E c1, c2 \in Ctx :
        /\ c1 # c2
        /\ Made("SECOND")
        /\ LiveGuards(7) = {<<c1, "MUTEX">>}
        /\ raw[c2][31] = 1
        /\ spinlock[7] /\ spinlock[31]

\* C13. Starvation hazard: with ties going to core 0 and core 0 locking
\* and releasing for ever, there are executions, fair to the steps of both
\* cores, in which lock() of core 1 never returns although the lock is
\* released again and again: in every execution with the timing of
\* SpecStarve core 1 stays in lock() without a guard, the lock is free
\* infinitely often, core 0 releases and core 1 polls infinitely often, and
\* every step is a step the two cores can take.
StarvationHazard ==
    /\ [](pc["core1"] = "lock" /\ guards["core1"]["MUTEX"] = 0)
    /\ []<>(~spinlock[LockOf("MUTEX")])
    /\ []<><<StarveDrop>>_vars
    /\ []<><<Core1Step>>_vars
    /\ [][NextContend]_vars

\* Core 1 is still spinning after several polls, core 0 has been round
\* its loop, and the lock is free with core 0 about to poll again.
StarvationHazardWitness ==
    /\ waiting["core1"] = "MUTEX"
    /\ iter["core1"] = PollWrap - 1
    /\ iter["core0"] >= 1
    /\ pc["core0"] = "lock"
    /\ ~spinlock[LockOf("MUTEX")]

\* C14. lock() never fails: each poll either returns a guard, in a step in
\* which lock N was free and becomes held by the caller, or leaves the
\* caller spinning with nothing changed. And it eventually returns a
\* guard, provided the lock is released again and again by whoever holds
\* it and the hardware eventually grants a free lock to a spinning
\* claimant (the fairness of SpecFair).
LockEventuallyReturns ==
    /\ [][\A c \in Ctx, m \in Cells :
            Lock(c, m) =>
                \/ /\ waiting'[c] = NoCell
                   /\ ~spinlock[LockOf(m)]
                   /\ spinlock'[LockOf(m)]
                   /\ guards' = [guards EXCEPT ![c][m] = 1]
                   /\ LockOf(m) \in HeldBy(c)'
                \/ /\ waiting'[c] = m
                   /\ spinlock[LockOf(m)]
                   /\ spinlock' = spinlock
                   /\ guards' = guards]_vars
    /\ \A c \in Ctx, m \in Cells :
           ([]<>(~spinlock[LockOf(m)])) =>
               ((waiting[c] = m) ~> (waiting[c] = NoCell /\ guards[c][m] = 1))

\* One context holds the guard of MUTEX while the other spins in lock()
\* on SECOND, which shares lock 7, having written THIRD before.
LockEventuallyReturnsWitness ==
    \E c1, c2 \in Ctx :
        /\ c1 # c2
        /\ guards[c1]["MUTEX"] = 1
        /\ waiting[c2] = "SECOND"
        /\ waiting[c1] = NoCell
        /\ spinlock[7]

\* The live claims on lock number n: guards and directly claimed
\* Spinlock<n> objects.
LiveClaims(n) ==
    Cardinality(LiveGuards(n)) + Cardinality({c \in Ctx : raw[c][n] > 0})

\* C16. Exactly-once release: the successful claims of lock N not yet
\* released are the live guards and direct claims on N, at most one each
\* and one in all exactly when N is held, none when it is free, so that
\* releases never exceed claims; a guard is dropped, by scope end or
\* unlock(), only while live, the drop frees N and the guard is not live
\* afterwards; and every step that frees N ends exactly one live claim.
ExactlyOnceRelease ==
    /\ [](\A c \in Ctx :
             /\ \A m \in Cells : guards[c][m] \in {0, 1}
             /\ \A n \in LockNums : raw[c][n] \in {0, 1})
    /\ [](\A n \in LockNums : LiveClaims(n) = IF spinlock[n] THEN 1 ELSE 0)
    /\ [][\A c \in Ctx, m \in Cells :
            (Unlock(c, m) \/ ScopeEnd(c, m)) =>
                /\ guards[c][m] = 1
                /\ guards'[c][m] = 0
                /\ spinlock[LockOf(m)]
                /\ ~spinlock'[LockOf(m)]]_vars
    /\ [][\A n \in LockNums :
            (spinlock[n] /\ ~spinlock'[n]) => LiveClaims(n)' = LiveClaims(n) - 1]_vars

\* The guard of THIRD has lived, was written through and has been
\* dropped: lock 31 is free and no claim on it is live.
ExactlyOnceReleaseWitness ==
    /\ data["THIRD"] # InitialValue("THIRD")
    /\ ~spinlock[31]
    /\ LiveClaims(31) = 0
    /\ \A c \in Ctx : ret[c] = NoCall

\* C17, as stated. A failed try_lock() changes neither the holder of lock
\* N, nor the live guards, nor the protected value, and its caller holds
\* nothing afterwards.
FailedTryLockHoldsNothing ==
    [][\A c \in Ctx, m \in Cells :
          (TryLock(c, m) /\ ret'[c] = RetNone) =>
              /\ spinlock' = spinlock
              /\ guards' = guards
              /\ data' = data
              /\ HeldBy(c)' = {}]_vars

\* C17, amended. A failed try_lock() changes neither the lock registers,
\* nor the live guards and direct claims, nor any protected value, nor who
\* is waiting, and its caller holds afterwards exactly what it held before:
\* it has obtained nothing.
FailedTryLockNoEffect ==
    [][\A c \in Ctx, m \in Cells :
          (TryLock(c, m) /\ ret'[c] = RetNone) =>
              /\ spinlock[LockOf(m)]
              /\ spinlock' = spinlock
              /\ guards' = guards
              /\ raw' = raw
              /\ data' = data
              /\ waiting' = waiting
              /\ LiveGuards(LockOf(m))' = LiveGuards(LockOf(m))
              /\ HeldBy(c)' = HeldBy(c)]_vars

\* A context that holds the guard of THIRD got None from try_lock() on a
\* mutex of lock 7, which the other context holds through MUTEX.
FailedTryLockNoEffectWitness ==
    \E c1, c2 \in Ctx :
        /\ c1 # c2
        /\ guards[c1]["MUTEX"] = 1
        /\ ret[c2] = RetNone
        /\ guards[c2]["THIRD"] = 1
        /\ HeldBy(c2) = {31}

\* C18. try_lock() by a context that already holds a live guard of lock N
\* returns None and returns control: the caller is not left spinning, its
\* guard is still live, no guard is added and lock N is still held.
SelfTryLockReturnsNone ==
    [][\A c \in Ctx, m \in Cells :
          (HoldsGuardOn(c, LockOf(m)) /\ TryLock(c, m)) =>
              /\ ret'[c] = RetNone
              /\ waiting'[c] = NoCell
              /\ guards' = guards
              /\ HoldsGuardOn(c, LockOf(m))'
              /\ spinlock'[LockOf(m)]
              /\ ~SelfDeadlocked(c)']_vars

\* A context that holds the guard of MUTEX has None from try_lock() and is
\* not spinning, while the other context holds nothing and has called
\* nothing.
SelfTryLockReturnsNoneWitness ==
    \E c1, c2 \in Ctx :
        /\ c1 # c2
        /\ guards[c1]["MUTEX"] = 1
        /\ ret[c1] = RetNone
        /\ waiting[c1] = NoCell
        /\ HeldBy(c2) = {}
        /\ ret[c2] = NoCall
        /\ waiting[c2] = NoCell

\* Some context holds a live guard of a lock number other than n.
GuardOnOtherNumber(n) ==
    \E c \in Ctx, n2 \in LockNums \ {n} : HoldsGuardOn(c, n2)

\* C19. Independence of lock numbers: while a guard of another number is
\* live, try_lock() on a mutex whose lock M is free returns Some and
\* lock() on it returns at once; and lock(), try_lock(), unlock() and a
\* guard's drop on a mutex of number N leave the register and the live
\* guards of every other number unchanged.
LockNumbersIndependent ==
    [][\A c \in Ctx, m \in Cells :
          /\ (GuardOnOtherNumber(LockOf(m)) /\ ~spinlock[LockOf(m)]) =>
                /\ TryLock(c, m) => (ret'[c] = RetSome /\ guards'[c][m] = 1)
                /\ Lock(c, m) => (waiting'[c] = NoCell /\ guards'[c][m] = 1)
          /\ (Lock(c, m) \/ TryLock(c, m) \/ Unlock(c, m) \/ ScopeEnd(c, m)) =>
                \A n2 \in LockNums \ {LockOf(m)} :
                    /\ spinlock'[n2] = spinlock[n2]
                    /\ LiveGuards(n2)' = LiveGuards(n2)]_vars

\* One context holds the guard of MUTEX (lock 7), the other obtained the
\* guard of THIRD (lock 31) by try_lock() meanwhile.
LockNumbersIndependentWitness ==
    \E c1, c2 \in Ctx :
        /\ c1 # c2
        /\ guards[c1]["MUTEX"] = 1
        /\ guards[c2]["THIRD"] = 1
        /\ ret[c2] = RetSome
        /\ spinlock[7]
        /\ spinlock[31]

\* C20. Lock/guard correspondence: when nobody holds Spinlock<N>
\* directly, lock N is held exactly when one live guard of number N
\* exists, and a step that frees N is the drop or unlock() of that guard by
\* the context that owns it.
LockGuardCorrespondence ==
    /\ [](\A n \in LockNums :
             NoRawClaim(n) => (spinlock[n] <=> Cardinality(LiveGuards(n)) = 1))
    /\ [][\A n \in LockNums :
            (NoRawClaim(n) /\ spinlock[n] /\ ~spinlock'[n]) =>
                \E p \in LiveGuards(n) :
                    /\ LiveGuards(n) = {p}
                    /\ Unlock(p[1], p[2]) \/ ScopeEnd(p[1], p[2])
                    /\ LiveGuards(n)' = {}]_vars

\* Lock 7 is held through the one live guard of SECOND, lock 31 is free
\* with no guard on it, and no lock is claimed directly.
LockGuardCorrespondenceWitness ==
    \E c \in Ctx :
        /\ LiveGuards(7) = {<<c, "SECOND">>}
        /\ spinlock[7]
        /\ ~spinlock[31]
        /\ LiveGuards(31) = {}
        /\ NoRawClaim(7)
        /\ NoRawClaim(31)

\* The handler spins in lock() on a mutex whose lock number is held
\* through a guard of the code it has preempted.
IrqDeadlocked ==
    /\ pc["core0"] = "preempted"
    /\ waiting[Handler] # NoCell
    /\ \E m \in Cells :
          LockOf(m) = LockOf(waiting[Handler]) /\ guards["core0"][m] > 0

\* C15. Interrupt re-entry deadlock: when the handler has preempted code of
\* its core that holds a guard of lock N and calls lock() on a mutex of
\* number N, the call does not return; and from then on, whatever the
\* other core does, the handler stays in that lock(), the preempted code
\* stays preempted with its guard live, and lock N stays held.
IrqReentryDeadlock ==
    /\ [][\A m \in Cells :
            /\ pc["core0"] = "preempted"
            /\ \E m2 \in Cells : LockOf(m2) = LockOf(m) /\ guards["core0"][m2] > 0
            /\ Lock(Handler, m)
            => IrqDeadlocked' /\ waiting'[Handler] = m]_vars
    /\ [][IrqDeadlocked =>
            /\ IrqDeadlocked'
            /\ waiting'[Handler] = waiting[Handler]
            /\ guards'[Handler] = guards[Handler]
            /\ guards'["core0"] = guards["core0"]
            /\ spinlock'[LockOf(waiting[Handler])]]_vars
    /\ [](IrqDeadlocked => ~ENABLED IrqReturn)

\* The handler spins in lock() on SECOND while the code it preempted holds
\* the guard of MUTEX, and core 1, which has nothing to do with lock 7,
\* holds the guard of THIRD.
IrqReentryDeadlockWitness ==
    /\ IrqDeadlocked
    /\ waiting[Handler] = "SECOND"
    /\ guards["core0"]["MUTEX"] = 1
    /\ guards["core1"]["THIRD"] = 1

====
